---- MODULE Spec2Model ----
(***************************************************************************)
(* Model of mlrose_ky/runners/rhc_runner.py: the RHCRunner class.          *)
(*                                                                         *)
(* One runner object is built by a caller and then used.  Python lists are *)
(* mutable objects handled by reference, so lists live in a heap (a        *)
(* sequence of lists, an object's identity is its index) and the runner's  *)
(* restart_list attribute holds a reference.  The base class _RunnerBase   *)
(* (its __init__ and its run_experiment_) is not part of the file; the     *)
(* model records every call the runner makes to it and lets it answer with *)
(* any outcome a call can have: a returned pair or a raised exception.     *)
(***************************************************************************)
EXTENDS Integers, Sequences, FiniteSets

VARIABLES
    pc,             \* "new", "idle", "sweep" (inside run(), in run_experiment_), "failed"
    args,           \* the arguments the caller gives to RHCRunner(...)
    heap,           \* list objects: heap[r] is the content of the list with identity r
    self,           \* the runner's own attributes: [restart_list |-> reference]
    given,          \* content of the caller's list when the constructor was called
    baseInit,       \* calls received by _RunnerBase.__init__ (their keyword arguments)
    baseInitResult, \* "none", "ok" or "raise": how _RunnerBase.__init__ ended
    sweepCalls,     \* calls received by _RunnerBase.run_experiment_
    sweepOutcomes,  \* how each of those calls ended
    runCalls,       \* number of invocations of run()
    runResults,     \* what each completed run() delivered to its caller
    edits,          \* number of changes the caller made to the restart list since construction
    reassigned      \* whether the caller has assigned a new list to runner.restart_list

vars == <<pc, args, heap, self, given, baseInit, baseInitResult, sweepCalls,
          sweepOutcomes, runCalls, runResults, edits, reassigned>>

----------------------------------------------------------------------------
(* Bounds of the model *)

MaxLen == 2       \* longest restart list
MaxRuns == 2      \* calls of run() on the runner
MaxEdits == 1     \* changes of the restart list by the caller after construction

----------------------------------------------------------------------------
(* Values *)

RestartVals == {-1, 25}

RECURSIVE ListsUpTo(_)
ListsUpTo(n) == IF n = 0 THEN {<<>>} ELSE ListsUpTo(n - 1) \cup [1..n -> RestartVals]

Lists == ListsUpTo(MaxLen)

Range(l) == {l[i] : i \in DOMAIN l}

\* sorted(l), by insertion
RECURSIVE Insert(_, _)
Insert(x, l) ==
    IF l = <<>> THEN <<x>>
    ELSE IF x <= Head(l) THEN <<x>> \o l
    ELSE <<Head(l)>> \o Insert(x, Tail(l))

RECURSIVE Sorted(_)
Sorted(l) == IF l = <<>> THEN <<>> ELSE Insert(Head(l), Sorted(Tail(l)))

NoRef == 0                      \* the attribute does not exist yet
CallerList == 1                 \* identity of the list object the caller passes in

random_hill_climb == "random_hill_climb"

DefaultMaxAttempts == 500
DefaultGenerateCurves == TRUE

\* An optional argument is <<>> when the caller omits it and <<v>> when given.
Given(opt, default) == IF opt = <<>> THEN default ELSE opt[1]

\* The shapes of constructor call: every optional argument omitted; the call of
\* the module docstring; curves switched off; everything given.
CallerArgs ==
    LET call(ma, gc, kw) ==
          [problem |-> "tsp",
           experiment_name |-> "example_experiment",
           seed |-> 42,
           iteration_list |-> <<1, 2, 4>>,
           restart_list |-> CallerList,
           max_attempts |-> ma,
           generate_curves |-> gc,
           kwargs |-> kw]
    IN {call(<<>>, <<>>, {}),
        call(<<5000>>, <<>>, {<<"output_directory", "out">>}),
        call(<<>>, <<FALSE>>, {}),
        call(<<5000>>, <<FALSE>>, {<<"output_directory", "out">>})}

\* The lists the caller may assign to the attribute later.
OtherLists == {<<>>, <<25>>, <<25, -1>>}

NoneNone == <<"None", "None">>
Tables == <<"df_run_stats", "df_run_curves">>
Exceptions == {"ValueError", "RuntimeError"}

Returned(pair) == [kind |-> "return", value |-> pair]
Raised(e) == [kind |-> "raise", value |-> <<e>>]

----------------------------------------------------------------------------
(* RHCRunner.__init__ *)

\* Variant: max_attempts is not forwarded, the base class gets the default.
super_init_kwargs_attempts_dropped(a) ==
    [problem |-> a.problem,
     experiment_name |-> a.experiment_name,
     seed |-> a.seed,
     iteration_list |-> a.iteration_list,
     max_attempts |-> DefaultMaxAttempts,
     generate_curves |-> Given(a.generate_curves, DefaultGenerateCurves),
     kwargs |-> a.kwargs]

\* The keyword arguments of the super().__init__(...) call.
super_init_kwargs(a) ==
    [problem |-> a.problem,
     experiment_name |-> a.experiment_name,
     seed |-> a.seed,
     iteration_list |-> a.iteration_list,
     max_attempts |-> Given(a.max_attempts, DefaultMaxAttempts),
     generate_curves |-> Given(a.generate_curves, DefaultGenerateCurves),
     kwargs |-> a.kwargs]

\* Variant: the constructor rejects an empty list and negative values.
RHCRunner_init_validating(a, h, base_raises) ==
    IF base_raises \/ h[a.restart_list] = <<>> \/ \E v \in Range(h[a.restart_list]) : v < 0
    THEN [raised |-> TRUE, restart_list |-> NoRef, heap |-> h]
    ELSE [raised |-> FALSE, restart_list |-> a.restart_list, heap |-> h]

\* Variant: the constructor stores list(restart_list), a copy.
RHCRunner_init_copying(a, h, base_raises) ==
    IF base_raises
    THEN [raised |-> TRUE, restart_list |-> NoRef, heap |-> h]
    ELSE [raised |-> FALSE, restart_list |-> Len(h) + 1,
          heap |-> Append(h, h[a.restart_list])]

\* The constructor after the super().__init__ call: an exception of the base
\* class leaves through the constructor, otherwise the reference is stored.
RHCRunner_init(a, h, base_raises) ==
    IF base_raises
    THEN [raised |-> TRUE, restart_list |-> NoRef, heap |-> h]
    ELSE [raised |-> FALSE, restart_list |-> a.restart_list, heap |-> h]

Construct ==
    /\ pc = "new"
    /\ \E base_raises \in BOOLEAN :
         LET r == RHCRunner_init(args, heap, base_raises) IN
           /\ baseInit' = Append(baseInit, super_init_kwargs(args))
           /\ baseInitResult' = IF base_raises THEN "raise" ELSE "ok"
           /\ pc' = IF r.raised THEN "failed" ELSE "idle"
           /\ self' = [restart_list |-> r.restart_list]
           /\ heap' = r.heap
           /\ given' = heap[args.restart_list]
    /\ UNCHANGED <<args, sweepCalls, sweepOutcomes, runCalls, runResults, edits,
                   reassigned>>

----------------------------------------------------------------------------
(* RHCRunner.run *)

\* Variant: sorted(self.restart_list) is passed, a new sorted list.
run_experiment_call_sorted(s, h) ==
    [algorithm |-> random_hill_climb,
     kwargs |-> {<<"restarts", <<"Restarts", Len(h) + 1>>>>},
     heap |-> Append(h, Sorted(h[s.restart_list]))]

\* Variant: self.restart_list.sort() before the call.
run_experiment_call_sorting_in_place(s, h) ==
    [algorithm |-> random_hill_climb,
     kwargs |-> {<<"restarts", <<"Restarts", s.restart_list>>>>},
     heap |-> [h EXCEPT ![s.restart_list] = Sorted(@)]]

\* Variant: the algorithm of another runner is passed.
run_experiment_call_other_algorithm(s, h) ==
    [algorithm |-> "simulated_annealing",
     kwargs |-> {<<"restarts", <<"Restarts", s.restart_list>>>>},
     heap |-> h]

\* The super().run_experiment_(...) call, with the runner's attributes s and
\* the heap h: the algorithm, the keyword arguments, and the heap once the
\* arguments are evaluated (the expression builds a tuple and no list).
run_experiment_call(s, h) ==
    [algorithm |-> random_hill_climb,
     kwargs |-> {<<"restarts", <<"Restarts", s.restart_list>>>>},
     heap |-> h]

\* The list object a call passes under the keyword `restarts`.
PassedRef(c) == (CHOOSE p \in c.kwargs : p[1] = "restarts")[2][2]

\* A call as run_experiment_ receives it, with the state it was made in.
Received(c) ==
    [algorithm |-> c.algorithm,
     kwargs |-> c.kwargs,
     items |-> c.heap[PassedRef(c)],   \* content of the list passed
     self |-> self,                     \* the runner's attributes at the call
     before |-> heap,                   \* the heap when run() was entered
     edits |-> edits,
     reassigned |-> reassigned]

\* Variant: run() catches the exception and reports no data.
run_return_swallowing(outcome) ==
    IF outcome.kind = "raise" THEN Returned(NoneNone) ELSE outcome

\* Variant: run() returns the two tables in the other order.
run_return_swapped(outcome) ==
    IF outcome.kind = "return"
    THEN Returned(<<outcome.value[2], outcome.value[1]>>)
    ELSE outcome

\* What run() hands to its caller when run_experiment_ ends with `outcome`.
run_return(outcome) == outcome

\* Variant: run() calls run_experiment_ once for each distinct restart value.
RunCallPerValue ==
    /\ pc = "idle"
    /\ runCalls < MaxRuns
    /\ runCalls' = runCalls + 1
    /\ LET c == run_experiment_call(self, heap) IN
         /\ sweepCalls' = sweepCalls \o
                [i \in 1..Cardinality(Range(heap[self.restart_list])) |-> Received(c)]
         /\ heap' = c.heap
    /\ pc' = "sweep"
    /\ UNCHANGED <<args, self, given, baseInit, baseInitResult,
                   sweepOutcomes, runResults, edits, reassigned>>

\* Variant: run() calls run_experiment_ twice.
RunCallTwice ==
    /\ pc = "idle"
    /\ runCalls < MaxRuns
    /\ runCalls' = runCalls + 1
    /\ LET c == run_experiment_call(self, heap) IN
         /\ sweepCalls' = sweepCalls \o <<Received(c), Received(c)>>
         /\ heap' = c.heap
    /\ pc' = "sweep"
    /\ UNCHANGED <<args, self, given, baseInit, baseInitResult,
                   sweepOutcomes, runResults, edits, reassigned>>

\* run() is entered and calls run_experiment_.
RunCall ==
    /\ pc = "idle"
    /\ runCalls < MaxRuns
    /\ runCalls' = runCalls + 1
    /\ LET c == run_experiment_call(self, heap) IN
         /\ sweepCalls' = Append(sweepCalls, Received(c))
         /\ heap' = c.heap
    /\ pc' = "sweep"
    /\ UNCHANGED <<args, self, given, baseInit, baseInitResult,
                   sweepOutcomes, runResults, edits, reassigned>>

\* run_experiment_ ends with `outcome`, and run() with it.
SweepEnds(outcome) ==
    /\ pc = "sweep"
    /\ sweepOutcomes' = Append(sweepOutcomes, outcome)
    /\ runResults' = Append(runResults, run_return(outcome))
    /\ pc' = "idle"
    /\ UNCHANGED <<args, heap, self, given, baseInit, baseInitResult,
                   sweepCalls, runCalls, edits, reassigned>>

SweepReturns == \E pair \in {NoneNone, Tables} : SweepEnds(Returned(pair))

SweepRaises == \E e \in Exceptions : SweepEnds(Raised(e))

----------------------------------------------------------------------------
(* The caller, between calls: the list it passed is still its own, and the *)
(* attribute is public.                                                    *)

CallerEdit(h, s, r) ==
    /\ pc = "idle"
    /\ edits < MaxEdits
    /\ edits' = edits + 1
    /\ heap' = h
    /\ self' = s
    /\ reassigned' = r
    /\ UNCHANGED <<pc, args, given, baseInit, baseInitResult, sweepCalls,
                   sweepOutcomes, runCalls, runResults>>

\* restart_list.append(v) on the list object that was passed to the constructor
CallerAppend ==
    \E v \in RestartVals :
      /\ Len(heap[CallerList]) < MaxLen
      /\ CallerEdit([heap EXCEPT ![CallerList] = Append(@, v)], self, reassigned)

\* restart_list.pop() on the list object that was passed to the constructor
CallerPop ==
    /\ Len(heap[CallerList]) > 0
    /\ CallerEdit([heap EXCEPT ![CallerList] = SubSeq(@, 1, Len(@) - 1)], self,
                  reassigned)

\* runner.restart_list = <a new list>
CallerReassign ==
    \E l \in OtherLists :
      CallerEdit(Append(heap, l), [self EXCEPT !.restart_list = Len(heap) + 1], TRUE)

----------------------------------------------------------------------------

Init ==
    /\ pc = "new"
    /\ args \in CallerArgs
    /\ \E l \in Lists : heap = <<l>>
    /\ self = [restart_list |-> NoRef]
    /\ given = <<>>
    /\ baseInit = <<>>
    /\ baseInitResult = "none"
    /\ sweepCalls = <<>>
    /\ sweepOutcomes = <<>>
    /\ runCalls = 0
    /\ runResults = <<>>
    /\ edits = 0
    /\ reassigned = FALSE

Next ==
    \/ Construct
    \/ RunCall
    \/ SweepReturns
    \/ SweepRaises
    \/ CallerAppend
    \/ CallerPop
    \/ CallerReassign

Spec == Init /\ [][Next]_vars

----------------------------------------------------------------------------
(* Properties *)

Calls == 1..Len(sweepCalls)
Ended == 1..Len(sweepOutcomes)

\* C1, as stated: after construction with a non-empty restart list and one
\* run(), the sweep mechanism has been invoked once per distinct restart value.
C1_PerDistinctValue ==
    (runCalls = 1 /\ pc = "idle" /\ edits = 0 /\ given # <<>>)
        => Len(sweepCalls) = Cardinality(Range(given))

\* C1, amended: after construction with a restart list and one run(), the
\* sweep mechanism has been invoked exactly once, whatever the number of
\* distinct values in the list, and that one invocation received the whole list.
C1_OncePerRun ==
    (runCalls = 1 /\ pc = "idle" /\ edits = 0)
        => /\ Len(sweepCalls) = 1
           /\ sweepCalls[1].items = given

C1_Witness ==
    /\ runCalls = 1 /\ pc = "idle" /\ edits = 0
    /\ Cardinality(Range(given)) = 2
    /\ Len(sweepCalls) = 1

C3_AlwaysRandomHillClimb ==
    \A i \in Calls :
      sweepCalls[i].algorithm = "random_hill_climb"

C3_Witness ==
    /\ Len(sweepCalls) = MaxRuns
    /\ args.max_attempts = <<5000>>
    /\ args.generate_curves = <<FALSE>>
    /\ reassigned

\* C4: what run() returns is the pair the sweep mechanism returned, (None, None)
\* as (None, None) and two tables as the same two tables in the same order.
C4_ReturnsThePair ==
    /\ Len(runResults) = Len(sweepOutcomes)
    /\ \A i \in Ended :
         sweepOutcomes[i].kind = "return"
           => /\ runResults[i].kind = "return"
              /\ runResults[i].value = sweepOutcomes[i].value

C4_Witness ==
    /\ \E i \in Ended : sweepOutcomes[i] = Returned(NoneNone) /\ runResults[i] = Returned(NoneNone)
    /\ \E i \in Ended : sweepOutcomes[i] = Returned(Tables) /\ runResults[i] = Returned(Tables)

\* C5: an exception raised in the sweep mechanism leaves run() as that same
\* exception, not as a returned pair, and the sweep mechanism has been called
\* once for that run(), not again.
C5_FailurePropagates ==
    /\ Len(runResults) = Len(sweepOutcomes)
    /\ \A i \in Ended :
         sweepOutcomes[i].kind = "raise"
           => /\ runResults[i].kind = "raise"
              /\ runResults[i].value = sweepOutcomes[i].value
    /\ Len(sweepCalls) <= Len(sweepOutcomes) + 1
    /\ Len(sweepCalls) <= runCalls

C5_Witness ==
    /\ pc = "idle"
    /\ \E i \in Ended : sweepOutcomes[i] = Raised("ValueError") /\ given = <<>>
    /\ \E i \in Ended : sweepOutcomes[i] = Raised("RuntimeError")
    /\ Len(sweepCalls) = Len(sweepOutcomes)

\* C6: the base constructor is called once, with problem, experiment_name,
\* seed, iteration_list, max_attempts and generate_curves as the caller gave
\* them, 500 and True for the two that may be omitted, every extra keyword
\* argument unchanged and no restart_list; restart_list is stored on the runner.
C6_ConstructorForwards ==
    /\ pc = "new" => baseInit = <<>>
    /\ pc # "new" =>
         /\ Len(baseInit) = 1
         /\ DOMAIN baseInit[1] = {"problem", "experiment_name", "seed", "iteration_list",
                                  "max_attempts", "generate_curves", "kwargs"}
         /\ baseInit[1].problem = args.problem
         /\ baseInit[1].experiment_name = args.experiment_name
         /\ baseInit[1].seed = args.seed
         /\ baseInit[1].iteration_list = args.iteration_list
         /\ baseInit[1].max_attempts =
               (IF args.max_attempts = <<>> THEN 500 ELSE args.max_attempts[1])
         /\ baseInit[1].generate_curves =
               (IF args.generate_curves = <<>> THEN TRUE ELSE args.generate_curves[1])
         /\ baseInit[1].kwargs = args.kwargs
         /\ \A kw \in baseInit[1].kwargs : kw[1] # "restart_list"
    /\ (baseInitResult = "ok" /\ ~reassigned) => self.restart_list = args.restart_list

C6_Witness ==
    /\ pc = "idle"
    /\ args.max_attempts = <<5000>>
    /\ args.generate_curves = <<>>
    /\ baseInit[1].max_attempts = 5000
    /\ baseInit[1].generate_curves = TRUE
    /\ baseInit[1].kwargs = {<<"output_directory", "out">>}
    /\ self.restart_list = CallerList

\* C7: the runner validates nothing about the restart list: whatever the
\* list, the empty list and negative values included, construction fails only
\* when the base constructor raised, the list is stored as given, and a run()
\* on the runner as constructed forwards that list to the sweep mechanism.
C7_NoValidation ==
    /\ pc = "failed" => baseInitResult = "raise"
    /\ baseInitResult = "ok" => pc \in {"idle", "sweep"}
    /\ (baseInitResult = "ok" /\ edits = 0)
         => (self.restart_list = CallerList /\ heap[CallerList] = given)
    /\ \A i \in Calls :
         sweepCalls[i].edits = 0
           => (PassedRef(sweepCalls[i]) = CallerList /\ sweepCalls[i].items = given)

C7_Witness ==
    /\ given = <<>>
    /\ baseInitResult = "ok"
    /\ \E i \in Calls : sweepCalls[i].edits = 0 /\ sweepCalls[i].items = <<>>

\* C8: each run() makes exactly one call of run_experiment_ and ends when that
\* call has ended; the constructor makes none; after n calls of run() the
\* sweep mechanism has been invoked n times.
C8_OneSynchronousCall ==
    /\ Len(sweepCalls) = runCalls
    /\ Len(runResults) = Len(sweepOutcomes)
    /\ pc = "sweep" => Len(sweepCalls) = Len(runResults) + 1
    /\ pc = "idle" => Len(sweepCalls) = Len(runResults)
    /\ pc \in {"new", "failed"} => sweepCalls = <<>>
    /\ runCalls = 0 => sweepCalls = <<>>

C8_Witness ==
    /\ runCalls = MaxRuns
    /\ pc = "idle"
    /\ Len(sweepCalls) = MaxRuns
    /\ baseInit # <<>>

\* C9: from the entry of run() to its end, by return or by exception, the
\* runner's restart_list and the lists are left as they were; and two calls of
\* run() with no change by the caller in between pass the same algorithm and
\* the same ("Restarts", list) binding.
C9_RunLeavesConfiguration ==
    /\ [][(pc = "sweep" \/ pc' = "sweep") => (self' = self /\ heap' = heap)]_vars
    /\ [](\A i \in Calls : \A j \in Calls :
            sweepCalls[i].edits = sweepCalls[j].edits
              => /\ sweepCalls[i].algorithm = sweepCalls[j].algorithm
                 /\ sweepCalls[i].kwargs = sweepCalls[j].kwargs
                 /\ sweepCalls[i].items = sweepCalls[j].items)

C9_Witness ==
    /\ Len(sweepCalls) = 2
    /\ pc = "idle"
    /\ sweepCalls[1].edits = sweepCalls[2].edits
    /\ sweepOutcomes[1].kind = "raise"
    /\ sweepOutcomes[2].kind = "return"
    /\ sweepCalls[2].items = <<25, -1>>
    /\ heap[self.restart_list] = <<25, -1>>

\* C10: the list is read when run() is called: the call passes the object the
\* attribute holds then, with the content it has then; while the attribute is
\* not reassigned that object is the caller's own list, so a mutation of it
\* after construction reaches the sweep mechanism.
C10_ReadAtRun ==
    \A i \in Calls :
      LET c == sweepCalls[i] IN
        /\ PassedRef(c) = c.self.restart_list
        /\ c.items = c.before[c.self.restart_list]
        /\ ~c.reassigned => (PassedRef(c) = CallerList /\ c.items = c.before[CallerList])

C10_Witness ==
    \E i \in Calls :
      /\ ~sweepCalls[i].reassigned
      /\ sweepCalls[i].edits > 0
      /\ sweepCalls[i].items # given
      /\ sweepCalls[i].items = heap[CallerList]

====
